---- MODULE Spec2Model ----
(***************************************************************************)
(* Model of qcut/apps/transcription/transcription.py: the request model    *)
(* TranscribeRequest and the endpoint handler transcribe_audio, one        *)
(* invocation from the arrival of the JSON body to the response.           *)
(*                                                                         *)
(* Python values are represented as follows.  An optional value is a       *)
(* sequence of length at most one: <<>> is None / an absent JSON field,    *)
(* <<v>> is the value v.  Strings whose characters matter (language hints, *)
(* base64 text) are sequences of one-character strings; object keys are    *)
(* TLA+ strings.  Timestamps are fixed-point, in tenths of a second.       *)
(* A byte of a file is either a number 0..255 (key material) or a          *)
(* symbolic record (audio, ciphertext, tag).                               *)
(***************************************************************************)
EXTENDS Integers, Sequences, FiniteSets, TLC

VARIABLES
    peer,               \* a second invocation running at the same time
    body,               \* the JSON body of the POST request
    store,              \* the R2 bucket: object key -> bytes
    pc,                 \* position of the invocation
    request,            \* the validated TranscribeRequest, <<>> before validation
    s3_client,          \* TRUE once boto3.client(...) has returned
    temp_path,          \* <<path>> once the scratch file has been created
    fs,                 \* local storage: path -> bytes
    model,              \* TRUE once whisper.load_model has returned
    result,             \* <<result>> once model.transcribe has returned
    adjusted_segments,  \* the list built by the adjustment loop
    unwinding,          \* "no", "return" or "raise": what leaves the try block
    retval,             \* <<value>> of the return statement being executed
    exc,                \* <<exception>> raised in this invocation
    response,           \* <<value>> handed back to the caller
    log,                \* lines printed for the operator
    calls               \* history of the calls made to external collaborators

vars == <<peer, body, store, pc, request, s3_client, temp_path, fs, model, result,
          adjusted_segments, unwinding, retval, exc, response, log, calls>>

-----------------------------------------------------------------------------
(* Bounds of the model. *)

MaxSegs == 2            \* longest segment list the model returns

-----------------------------------------------------------------------------
(* Python values. *)

None == <<>>
Some(v) == <<v>>
Val(o) == o[1]

\* Python truthiness of an optional string: None and the empty string are
\* falsy.  TruthyKey is the same test for an object key (a TLA+ string),
\* Truthy for a string kept as a sequence of characters.
TruthyKey(o) == o # None /\ Val(o) # ""
Truthy(o) == o # None /\ Val(o) # <<>>

Max(a, b) == IF a >= b THEN a ELSE b

RECURSIVE Rep(_, _)
Rep(c, n) == IF n = 0 THEN <<>> ELSE <<c>> \o Rep(c, n - 1)

\* str.lower() on the letters that occur in the language hints.
UpperChars == <<"A", "E", "N", "O", "T", "U">>
LowerChars == <<"a", "e", "n", "o", "t", "u">>

LowerChar(c) ==
    IF \E k \in 1..Len(UpperChars) : UpperChars[k] = c
    THEN LowerChars[CHOOSE k \in 1..Len(UpperChars) : UpperChars[k] = c]
    ELSE c

Lower(s) == [k \in 1..Len(s) |-> LowerChar(s[k])]

AUTO == <<"a", "u", "t", "o">>

UNKNOWN == <<"u", "n", "k", "n", "o", "w", "n">>

-----------------------------------------------------------------------------
(* base64.b64decode, on text over the base64 alphabet and "=".  The result *)
(* is <<bytes>>, or None where Python raises binascii.Error.               *)

B64Alphabet ==
    <<"A", "B", "C", "D", "E", "F", "G", "H", "I", "J", "K", "L", "M",
      "N", "O", "P", "Q", "R", "S", "T", "U", "V", "W", "X", "Y", "Z",
      "a", "b", "c", "d", "e", "f", "g", "h", "i", "j", "k", "l", "m",
      "n", "o", "p", "q", "r", "s", "t", "u", "v", "w", "x", "y", "z",
      "0", "1", "2", "3", "4", "5", "6", "7", "8", "9", "+", "/">>

IsB64Char(c) == \E k \in 1..Len(B64Alphabet) : B64Alphabet[k] = c

B64Val(c) == (CHOOSE k \in 1..Len(B64Alphabet) : B64Alphabet[k] = c) - 1

B64Pad(s) ==
    IF Len(s) >= 2 /\ s[Len(s)] = "=" /\ s[Len(s) - 1] = "=" THEN 2
    ELSE IF Len(s) >= 1 /\ s[Len(s)] = "=" THEN 1
    ELSE 0

B64WellFormed(s) ==
    /\ Len(s) % 4 = 0
    /\ \A k \in 1..(Len(s) - B64Pad(s)) : IsB64Char(s[k])

\* The three bytes of one group of four characters ("=" counts as 0).
B64Group(s, g) ==
    LET v(k) == IF s[4 * g + k] = "=" THEN 0 ELSE B64Val(s[4 * g + k])
    IN  << v(1) * 4 + (v(2) \div 16),
           (v(2) % 16) * 16 + (v(3) \div 4),
           (v(3) % 4) * 64 + v(4) >>

RECURSIVE B64Groups(_, _)
B64Groups(s, g) ==
    IF 4 * g >= Len(s) THEN <<>> ELSE B64Group(s, g) \o B64Groups(s, g + 1)

\* b64decode that keeps the bytes the "=" padding stands for.
b64decodeKeepsPadding(s) ==
    IF B64WellFormed(s) THEN Some(B64Groups(s, 0)) ELSE None

b64decode(s) ==
    IF B64WellFormed(s)
    THEN LET all == B64Groups(s, 0)
         IN  Some(SubSeq(all, 1, Len(all) - B64Pad(s)))
    ELSE None

\* The base64 text of a byte string, as the client sends key and nonce.
RECURSIVE b64encode(_)
b64encode(bytes) ==
    LET n == Len(bytes)
        b(k) == IF k <= n THEN bytes[k] ELSE 0
        c1 == B64Alphabet[(b(1) \div 4) + 1]
        c2 == B64Alphabet[(b(1) % 4) * 16 + (b(2) \div 16) + 1]
        c3 == B64Alphabet[(b(2) % 16) * 4 + (b(3) \div 64) + 1]
        c4 == B64Alphabet[(b(3) % 64) + 1]
    IN  IF n = 0 THEN <<>>
        ELSE IF n = 1 THEN <<c1, c2, "=", "=">>
        ELSE IF n = 2 THEN <<c1, c2, c3, "=">>
        ELSE <<c1, c2, c3, c4>> \o b64encode(SubSeq(bytes, 4, n))

-----------------------------------------------------------------------------
(* AES-GCM, symbolically.  The ciphertext of a byte records the byte, the  *)
(* key, the nonce and the position; the tag authenticates the ciphertext   *)
(* under the key and the nonce.                                            *)

TagLen == 16                    \* bytes of the GCM tag
AesKeySizes == {16, 24, 32}     \* bytes of an AES key
GcmMinIv == 8                   \* bytes of the shortest GCM nonce
GcmMaxIv == 128                 \* bytes of the longest GCM nonce

GcmByte(p, K, N, k) == [ct |-> p, key |-> K, nonce |-> N, pos |-> k]

GcmTag(ct, K, N) ==
    [j \in 1..TagLen |-> [tag |-> j, over |-> ct, key |-> K, nonce |-> N]]

GcmEncrypt(P, K, N) ==
    LET ct == [k \in 1..Len(P) |-> GcmByte(P[k], K, N, k)]
    IN  ct \o GcmTag(ct, K, N)

\* decryptor.update: the keystream removed from one byte.
GcmPlainByte(c, K, N, k) ==
    IF DOMAIN c = {"ct", "key", "nonce", "pos"} /\ c.key = K /\ c.nonce = N /\ c.pos = k
    THEN c.ct
    ELSE [garbled |-> c, key |-> K, nonce |-> N, pos |-> k]

\* Decrypt without decryptor.finalize(): the tag is never verified.
DecryptNoAuth(encrypted_data, decryption_key, iv) ==
    LET key_bytes == b64decode(decryption_key)
        iv_bytes == b64decode(iv)
        n == Len(encrypted_data)
        cut == IF n >= TagLen THEN n - TagLen ELSE 0
        ciphertext == SubSeq(encrypted_data, 1, cut)
    IN  IF key_bytes = None \/ iv_bytes = None THEN None
        ELSE IF Len(Val(key_bytes)) \notin AesKeySizes THEN None
        ELSE Some([k \in 1..Len(ciphertext) |->
                      GcmPlainByte(ciphertext[k], Val(key_bytes), Val(iv_bytes), k)])

\* Lines 66-85: the plaintext as <<bytes>>, or None where the code raises
\* (bad base64, bad key or nonce length, short tag, InvalidTag).
Decrypt(encrypted_data, decryption_key, iv) ==
    LET key_bytes == b64decode(decryption_key)
        iv_bytes == b64decode(iv)
        n == Len(encrypted_data)
        cut == IF n >= TagLen THEN n - TagLen ELSE 0
        tag == SubSeq(encrypted_data, cut + 1, n)
        ciphertext == SubSeq(encrypted_data, 1, cut)
    IN  IF key_bytes = None \/ iv_bytes = None THEN None
        ELSE IF Len(Val(key_bytes)) \notin AesKeySizes THEN None
        ELSE IF Len(Val(iv_bytes)) < GcmMinIv \/ Len(Val(iv_bytes)) > GcmMaxIv THEN None
        ELSE IF Len(tag) < TagLen THEN None
        ELSE IF tag # GcmTag(ciphertext, Val(key_bytes), Val(iv_bytes)) THEN None
        ELSE Some([k \in 1..Len(ciphertext) |->
                      GcmPlainByte(ciphertext[k], Val(key_bytes), Val(iv_bytes), k)])

-----------------------------------------------------------------------------
(* The speech model's output.  A segment is a record with the fields id,   *)
(* start, end and text; the model is an external collaborator, and a       *)
(* segment without start and end stands for a result the adjustment loop   *)
(* cannot process.  Transcript text is a sequence of words.                *)

SEGMENT_TIME_ADJUSTMENT_SEC == 5        \* 0.5 s, in tenths of a second

TimePoints == {0, 2, 4, 5, 10, 12, 30}

Words == {"hello"}

Timed == {[start |-> s, end |-> e, text |-> w] :
             s \in TimePoints, e \in TimePoints, w \in Words}

WellOrdered == {t \in Timed : t.start <= t.end}

Untimed == {[text |-> w] : w \in Words}

\* Every list of at most n segments over S.
RECURSIVE SegLists(_, _)
SegLists(S, n) ==
    IF n = 0 THEN {<<>>}
    ELSE LET shorter == SegLists(S, n - 1)
         IN  shorter \cup {Append(l, t) : l \in {x \in shorter : Len(x) = n - 1}, t \in S}

\* A recording: what is said in it, and the language the model detects.
Recording(segs) == [segments |-> segs, language |-> <<"j", "a">>]

Spoken ==
    << [start |-> 12, end |-> 30, text |-> "hello"],
       [start |-> 2, end |-> 4, text |-> "world"] >>

SampleSegs ==
    { <<>>, Spoken,
      << [start |-> 12, end |-> 12, text |-> "hello"], [text |-> "world"] >> }

AudioLen == 2           \* bytes of an audio file

WavBytes(a) == [k \in 1..AudioLen |-> [wav |-> a, pos |-> k]]

IsWav(bytes) ==
    /\ Len(bytes) = AudioLen
    /\ \A k \in 1..Len(bytes) :
          /\ DOMAIN bytes[k] = {"wav", "pos"}
          /\ bytes[k].pos = k
          /\ bytes[k].wav = bytes[1].wav

\* whisper's result on a recording: the segments numbered, the text of all
\* of them, and the forced language or else the detected one.
WhisperResult(a, forced) ==
    [text |-> [k \in 1..Len(a.segments) |-> a.segments[k].text],
     segments |-> [k \in 1..Len(a.segments) |->
                      [f \in DOMAIN a.segments[k] \cup {"id"} |->
                          IF f = "id" THEN k - 1 ELSE a.segments[k][f]]],
     language |-> IF forced = None THEN a.language ELSE Val(forced)]

-----------------------------------------------------------------------------
(* The requests and the bucket contents the model draws from. *)

KEY1 == Rep("A", 22) \o <<"=", "=">>    \* base64 of 16 bytes 0x00
KEY2 == Rep("/", 21) \o <<"w", "=", "=">>   \* base64 of 16 bytes 0xFF
KEY8 == Rep("A", 11) \o <<"=">>         \* base64 of 8 bytes: no AES key
BADB64 == <<"A", "A", "A">>             \* not base64: wrong padding
IV1 == Rep("A", 16)                     \* base64 of 12 bytes 0x00
IV2 == Rep("/", 16)                     \* base64 of 12 bytes 0xFF

Filenames == {None, Some(""), Some("a.wav"), Some("gone.wav")}

LanguageHints ==
    {None, Some(AUTO), Some(<<"A", "U", "T", "O">>), Some(<<"A", "u", "t", "o">>),
     Some(<<"E", "N">>), Some(<<"e", "n">>)}

DecryptionKeys == {None, Some(<<>>), Some(KEY1), Some(KEY2), Some(KEY8), Some(BADB64)}

Ivs == {None, Some(<<>>), Some(IV1), Some(IV2)}

Bodies ==
    [filename : Filenames, language : LanguageHints,
     decryptionKey : DecryptionKeys, iv : Ivs]

Flip(b) == [flipped |-> b]

\* The object under key "a.wav": plain audio, or audio encrypted under
\* KEY1 and IV1, intact or with one bit of the ciphertext or tag flipped.
Objects(segLists) ==
    LET plain == {WavBytes(Recording(l)) : l \in segLists}
        sealed == GcmEncrypt(WavBytes(Recording(Spoken)), Val(b64decode(KEY1)), Val(b64decode(IV1)))
    IN  plain \cup
        { sealed,
          [sealed EXCEPT ![1] = Flip(@)],
          [sealed EXCEPT ![Len(sealed)] = Flip(@)] }

TempPaths == {"/tmp/tmpk3x9.wav", "/tmp/tmpq07b.wav"}

-----------------------------------------------------------------------------
(* The request model (lines 6-10) and the responses. *)

\* TranscribeRequest(**body): None where validation fails (filename is a
\* required str), else the request with the defaults filled in.
TranscribeRequest(b) ==
    IF b.filename = None THEN None
    ELSE Some([filename |-> Val(b.filename),
               language |-> IF b.language = None THEN AUTO ELSE Val(b.language),
               decryption_key |-> b.decryptionKey,
               iv |-> b.iv])

\* What the endpoint framework answers when the body does not validate.
RequestValidationError == [detail |-> "Field required"]

MissingFilename == [error |-> "Missing filename parameter"]

GenericError ==
    [error |-> "An unexpected error occurred during transcription.",
     text |-> <<>>, segments |-> <<>>, language |-> UNKNOWN]

Remove(f, k) == [x \in DOMAIN f \ {k} |-> f[x]]

Raised(type, msg) == Some([type |-> type, msg |-> msg])

-----------------------------------------------------------------------------
(* The state after construction: a body has arrived, nothing has run. *)

IdlePeer == [pc |-> "idle", request |-> None, temp_path |-> None]

InitWith(bodies, objects) ==
    /\ peer = IdlePeer
    /\ body \in bodies
    /\ \E o \in objects : store = [k \in {"a.wav"} |-> o]
    /\ pc = "received"
    /\ request = None
    /\ s3_client = FALSE
    /\ temp_path = None
    /\ fs = [p \in {} |-> <<>>]
    /\ model = FALSE
    /\ result = None
    /\ adjusted_segments = <<>>
    /\ unwinding = "no"
    /\ retval = None
    /\ exc = None
    /\ response = None
    /\ log = <<>>
    /\ calls = <<>>

Init == InitWith(Bodies, Objects(SampleSegs))

-----------------------------------------------------------------------------
(* transcribe_audio, step by step. *)

\* Lines 6-10, 21: the body is validated into a TranscribeRequest before the
\* handler runs; a body that does not validate never reaches the handler.
Validate ==
    /\ pc = "received"
    /\ request' = TranscribeRequest(body)
    /\ IF TranscribeRequest(body) = None
       THEN /\ pc' = "rejected"
            /\ response' = Some(RequestValidationError)
       ELSE /\ pc' = "start"
            /\ UNCHANGED response
    /\ UNCHANGED <<peer, body, store, s3_client, temp_path, fs, model, result,
                   adjusted_segments, unwinding, retval, exc, log, calls>>

\* Lines 28-37.
CheckFilename ==
    /\ pc = "start"
    /\ IF ~TruthyKey(Some(Val(request).filename))
       THEN /\ response' = Some(MissingFilename)
            /\ pc' = "done"
       ELSE /\ pc' = "client"
            /\ UNCHANGED response
    /\ UNCHANGED <<peer, body, store, request, s3_client, temp_path, fs, model, result,
                   adjusted_segments, unwinding, retval, exc, log, calls>>

\* Lines 40-46: boto3.client with the configuration of the environment.
BuildClient ==
    /\ pc = "client"
    /\ calls' = Append(calls, [op |-> "boto3.client"])
    /\ \/ /\ s3_client' = TRUE
          /\ pc' = "mktemp"
          /\ UNCHANGED exc
       \/ /\ exc' = Raised("KeyError", <<"R2_ACCESS_KEY_ID">>)
          /\ pc' = "except"
          /\ UNCHANGED s3_client
    /\ UNCHANGED <<peer, body, store, request, temp_path, fs, model, result,
                   adjusted_segments, unwinding, retval, response, log>>

\* CreateTemp that opens a path by name, whether or not it is in use.
CreateTempAnyName ==
    /\ pc = "mktemp"
    /\ \/ \E p \in TempPaths :
             /\ fs' = [x \in DOMAIN fs \cup {p} |-> IF x = p THEN <<>> ELSE fs[x]]
             /\ temp_path' = Some(p)
             /\ pc' = "download"
             /\ UNCHANGED exc
       \/ /\ exc' = Raised("OSError", <<"No space left on device">>)
          /\ pc' = "except"
          /\ UNCHANGED <<fs, temp_path>>
    /\ UNCHANGED <<peer, body, store, request, s3_client, model, result,
                   adjusted_segments, unwinding, retval, response, log, calls>>

\* Lines 49-50: tempfile.NamedTemporaryFile(delete=False, suffix='.wav').
CreateTemp ==
    /\ pc = "mktemp"
    /\ \/ \E p \in TempPaths \ DOMAIN fs :
             /\ fs' = [x \in DOMAIN fs \cup {p} |-> IF x = p THEN <<>> ELSE fs[x]]
             /\ temp_path' = Some(p)
             /\ pc' = "download"
             /\ UNCHANGED exc
       \/ /\ exc' = Raised("OSError", <<"No space left on device">>)
          /\ pc' = "except"
          /\ UNCHANGED <<fs, temp_path>>
    /\ UNCHANGED <<peer, body, store, request, s3_client, model, result,
                   adjusted_segments, unwinding, retval, response, log, calls>>

\* Download that tries a second time when the first transfer fails.
DownloadRetries ==
    /\ pc = "download"
    /\ calls' = Append(calls, [op |-> "download_file", key |-> Val(request).filename])
    /\ \/ /\ Val(request).filename \in DOMAIN store
          /\ fs' = [fs EXCEPT ![Val(temp_path)] = store[Val(request).filename]]
          /\ pc' = "decrypt"
          /\ UNCHANGED <<exc, unwinding>>
       \/ /\ calls = <<[op |-> "boto3.client"]>>
          /\ pc' = "download"
          /\ UNCHANGED <<fs, exc, unwinding>>
       \/ /\ calls # <<[op |-> "boto3.client"]>>
          /\ exc' = Raised("ConnectionError", <<"transfer interrupted">>)
          /\ unwinding' = "raise"
          /\ pc' = "finally"
          /\ UNCHANGED fs
    /\ UNCHANGED <<peer, body, store, request, s3_client, temp_path, model, result,
                   adjusted_segments, retval, response, log>>

\* Lines 54-58: s3_client.download_file(bucket, filename, temp_path).
Download ==
    /\ pc = "download"
    /\ calls' = Append(calls, [op |-> "download_file", key |-> Val(request).filename])
    /\ \/ /\ Val(request).filename \in DOMAIN store
          /\ fs' = [fs EXCEPT ![Val(temp_path)] = store[Val(request).filename]]
          /\ pc' = "decrypt"
          /\ UNCHANGED <<exc, unwinding>>
       \/ /\ exc' = IF Val(request).filename \in DOMAIN store
                    THEN Raised("ConnectionError", <<"transfer interrupted">>)
                    ELSE Raised("ClientError", <<"404 Not Found", Val(request).filename>>)
          /\ unwinding' = "raise"
          /\ pc' = "finally"
          /\ UNCHANGED fs
    /\ UNCHANGED <<peer, body, store, request, s3_client, temp_path, model, result,
                   adjusted_segments, retval, response, log>>

\* DecryptFile gated on the key alone.
DecryptFileKeyOnly ==
    /\ pc = "decrypt"
    /\ IF Truthy(Val(request).decryption_key)
       THEN LET nonce == IF Val(request).iv = None THEN <<>> ELSE Val(Val(request).iv)
                plain == Decrypt(fs[Val(temp_path)],
                                 Val(Val(request).decryption_key), nonce)
            IN  /\ calls' = Append(calls, [op |-> "decrypt"])
                /\ IF plain = None
                   THEN /\ exc' = Raised("DecryptionError",
                                         <<Val(Val(request).decryption_key)>>)
                        /\ unwinding' = "raise"
                        /\ pc' = "finally"
                        /\ UNCHANGED fs
                   ELSE /\ fs' = [fs EXCEPT ![Val(temp_path)] = Val(plain)]
                        /\ pc' = "load"
                        /\ UNCHANGED <<exc, unwinding>>
       ELSE /\ pc' = "load"
            /\ UNCHANGED <<fs, exc, unwinding, calls>>
    /\ UNCHANGED <<peer, body, store, request, s3_client, temp_path, model, result,
                   adjusted_segments, retval, response, log>>

\* Lines 61-89: decrypt the scratch file in place when key and iv are given.
DecryptFile ==
    /\ pc = "decrypt"
    /\ IF Truthy(Val(request).decryption_key) /\ Truthy(Val(request).iv)
       THEN LET plain == Decrypt(fs[Val(temp_path)],
                                 Val(Val(request).decryption_key),
                                 Val(Val(request).iv))
            IN  /\ calls' = Append(calls, [op |-> "decrypt"])
                /\ IF plain = None
                   THEN /\ exc' = Raised("DecryptionError",
                                         <<Val(Val(request).decryption_key)>>)
                        /\ unwinding' = "raise"
                        /\ pc' = "finally"
                        /\ UNCHANGED fs
                   ELSE /\ fs' = [fs EXCEPT ![Val(temp_path)] = Val(plain)]
                        /\ pc' = "load"
                        /\ UNCHANGED <<exc, unwinding>>
       ELSE /\ pc' = "load"
            /\ UNCHANGED <<fs, exc, unwinding, calls>>
    /\ UNCHANGED <<peer, body, store, request, s3_client, temp_path, model, result,
                   adjusted_segments, retval, response, log>>

\* Lines 92-93: whisper.load_model(model_name).
LoadModel ==
    /\ pc = "load"
    /\ calls' = Append(calls, [op |-> "load_model"])
    /\ \/ /\ model' = TRUE
          /\ pc' = "transcribe"
          /\ UNCHANGED <<exc, unwinding>>
       \/ /\ exc' = Raised("RuntimeError", <<"model load failed">>)
          /\ unwinding' = "raise"
          /\ pc' = "finally"
          /\ UNCHANGED model
    /\ UNCHANGED <<peer, body, store, request, s3_client, temp_path, fs, result,
                   adjusted_segments, retval, response, log>>
\* ForcedLanguage with the sentinel compared case-insensitively.
ForcedLanguageAnyCase(language) ==
    IF Lower(language) = AUTO THEN None ELSE Some(Lower(language))

\* Lines 96-99: the language handed to model.transcribe, None for
\* auto-detection.
ForcedLanguage(language) ==
    IF language = AUTO THEN None ELSE Some(Lower(language))

\* Lines 96-99: model.transcribe on the scratch file.
Transcribe ==
    /\ pc = "transcribe"
    /\ LET forced == ForcedLanguage(Val(request).language)
           audio == fs[Val(temp_path)]
       IN  /\ calls' = Append(calls, [op |-> "transcribe", audio |-> audio,
                                      language |-> forced])
           /\ \/ /\ IsWav(audio)
                 /\ result' = Some(WhisperResult(audio[1].wav, forced))
                 /\ pc' = "delete"
                 /\ UNCHANGED <<exc, unwinding>>
              \/ /\ exc' = Raised("RuntimeError", <<"transcription failed">>)
                 /\ unwinding' = "raise"
                 /\ pc' = "finally"
                 /\ UNCHANGED result
    /\ UNCHANGED <<peer, body, store, request, s3_client, temp_path, fs, model,
                   adjusted_segments, retval, response, log>>

\* DeleteSource with the delete call left out.
DeleteSourceSkipped ==
    /\ pc = "delete"
    /\ pc' = "adjust"
    /\ UNCHANGED <<peer, body, store, request, s3_client, temp_path, fs, model, result,
                   adjusted_segments, unwinding, retval, exc, response, log, calls>>

\* Lines 102-105: s3_client.delete_object(Bucket=..., Key=filename).  When the
\* call raises, the object may or may not have been removed.
DeleteSource ==
    /\ pc = "delete"
    /\ calls' = Append(calls, [op |-> "delete_object", key |-> Val(request).filename])
    /\ \/ /\ store' = Remove(store, Val(request).filename)
          /\ pc' = "adjust"
          /\ UNCHANGED <<exc, unwinding>>
       \/ /\ store' \in {store, Remove(store, Val(request).filename)}
          /\ exc' = Raised("ClientError", <<"delete failed", Val(request).filename>>)
          /\ unwinding' = "raise"
          /\ pc' = "finally"
    /\ UNCHANGED <<peer, body, request, s3_client, temp_path, fs, model, result,
                   adjusted_segments, retval, response, log>>

\* AdjustStart without the shift.
AdjustStartUnshifted(start) == Max(0, start)

\* AdjustEnd clamped at 0 like the start.
AdjustEndFloorZero(end) == Max(0, end - SEGMENT_TIME_ADJUSTMENT_SEC)

\* Lines 113-114.
AdjustStart(start) == Max(0, start - SEGMENT_TIME_ADJUSTMENT_SEC)

AdjustEnd(end) == Max(SEGMENT_TIME_ADJUSTMENT_SEC, end - SEGMENT_TIME_ADJUSTMENT_SEC)

\* Lines 111-114: the copy of a segment with start and end shifted.
AdjustedSegment(segment) ==
    [segment EXCEPT !.start = AdjustStart(segment.start),
                    !.end = AdjustEnd(segment.end)]

\* AdjustSegment without the copy: the model's own segment is rewritten.
AdjustSegmentInPlace ==
    /\ pc = "adjust"
    /\ Len(adjusted_segments) < Len(Val(result).segments)
    /\ LET i == Len(adjusted_segments) + 1
           segment == Val(result).segments[i]
       IN  IF {"start", "end"} \subseteq DOMAIN segment
           THEN /\ adjusted_segments' = Append(adjusted_segments, AdjustedSegment(segment))
                /\ result' = Some([Val(result) EXCEPT !.segments[i] = AdjustedSegment(segment)])
                /\ UNCHANGED <<exc, unwinding, pc>>
           ELSE /\ exc' = Raised("KeyError", <<"start">>)
                /\ unwinding' = "raise"
                /\ pc' = "finally"
                /\ UNCHANGED <<adjusted_segments, result>>
    /\ UNCHANGED <<peer, body, store, request, s3_client, temp_path, fs, model,
                   retval, response, log, calls>>

\* Lines 110-115: one iteration of the adjustment loop.
AdjustSegment ==
    /\ pc = "adjust"
    /\ Len(adjusted_segments) < Len(Val(result).segments)
    /\ LET segment == Val(result).segments[Len(adjusted_segments) + 1]
       IN  IF {"start", "end"} \subseteq DOMAIN segment
           THEN /\ adjusted_segments' = Append(adjusted_segments, AdjustedSegment(segment))
                /\ UNCHANGED <<exc, unwinding, pc>>
           ELSE /\ exc' = Raised("KeyError", <<"start">>)
                /\ unwinding' = "raise"
                /\ pc' = "finally"
                /\ UNCHANGED adjusted_segments
    /\ UNCHANGED <<peer, body, store, request, s3_client, temp_path, fs, model, result,
                   retval, response, log, calls>>

\* Lines 117-121: the return statement, once the loop is over.
ReturnResult ==
    /\ pc = "adjust"
    /\ Len(adjusted_segments) = Len(Val(result).segments)
    /\ retval' = Some([text |-> Val(result).text,
                       segments |-> adjusted_segments,
                       language |-> Val(result).language])
    /\ unwinding' = "return"
    /\ pc' = "finally"
    /\ UNCHANGED <<peer, body, store, request, s3_client, temp_path, fs, model, result,
                   adjusted_segments, exc, response, log, calls>>

\* Finally with the scratch file removed on the success path only.
FinallyKeepsFileOnError ==
    /\ pc = "finally"
    /\ fs' = IF unwinding = "return" /\ Val(temp_path) \in DOMAIN fs
             THEN Remove(fs, Val(temp_path)) ELSE fs
    /\ IF unwinding = "raise"
       THEN /\ pc' = "except"
            /\ UNCHANGED response
       ELSE /\ pc' = "done"
            /\ response' = retval
    /\ UNCHANGED <<peer, body, store, request, s3_client, temp_path, model, result,
                   adjusted_segments, unwinding, retval, exc, log, calls>>

\* Lines 123-126: the finally block, then the exception goes on to the
\* handler or the value goes back to the caller.
Finally ==
    /\ pc = "finally"
    /\ fs' = IF Val(temp_path) \in DOMAIN fs THEN Remove(fs, Val(temp_path)) ELSE fs
    /\ IF unwinding = "raise"
       THEN /\ pc' = "except"
            /\ UNCHANGED response
       ELSE /\ pc' = "done"
            /\ response' = retval
    /\ UNCHANGED <<peer, body, store, request, s3_client, temp_path, model, result,
                   adjusted_segments, unwinding, retval, exc, log, calls>>

\* Except with the exception's type put in the response.
ExceptLeaksType ==
    /\ pc = "except"
    /\ log' = log \o << [line |-> "Transcription error", detail |-> Val(exc).msg] >>
    /\ response' = Some([GenericError EXCEPT !.error = Val(exc).type])
    /\ pc' = "done"
    /\ UNCHANGED <<peer, body, store, request, s3_client, temp_path, fs, model, result,
                   adjusted_segments, unwinding, retval, exc, calls>>

\* Lines 128-140: the error is printed and the generic response returned.
\* Except that answers with whatever the model and the loop had produced.
ExceptReturnsPartial ==
    /\ pc = "except"
    /\ log' = log \o << [line |-> "Transcription error", detail |-> Val(exc).msg],
                        [line |-> "Traceback", detail |-> <<Val(exc).type>> \o Val(exc).msg] >>
    /\ response' = Some([GenericError EXCEPT
                            !.text = IF result = None THEN <<>> ELSE Val(result).text,
                            !.segments = adjusted_segments])
    /\ pc' = "done"
    /\ UNCHANGED <<peer, body, store, request, s3_client, temp_path, fs, model, result,
                   adjusted_segments, unwinding, retval, exc, calls>>

\* Except that logs and lets the exception go on to the caller.
ExceptReraises ==
    /\ pc = "except"
    /\ log' = log \o << [line |-> "Transcription error", detail |-> Val(exc).msg],
                        [line |-> "Traceback", detail |-> <<Val(exc).type>> \o Val(exc).msg] >>
    /\ pc' = "escaped"
    /\ UNCHANGED <<peer, body, store, request, s3_client, temp_path, fs, model, result,
                   adjusted_segments, unwinding, retval, exc, response, calls>>

Except ==
    /\ pc = "except"
    /\ log' = log \o << [line |-> "Transcription error", detail |-> Val(exc).msg],
                        [line |-> "Traceback", detail |-> <<Val(exc).type>> \o Val(exc).msg] >>
    /\ response' = Some(GenericError)
    /\ pc' = "done"
    /\ UNCHANGED <<peer, body, store, request, s3_client, temp_path, fs, model, result,
                   adjusted_segments, unwinding, retval, exc, calls>>

Next ==
    \/ Validate
    \/ CheckFilename
    \/ BuildClient
    \/ CreateTemp
    \/ Download
    \/ DecryptFile
    \/ LoadModel
    \/ Transcribe
    \/ DeleteSource
    \/ AdjustSegment
    \/ ReturnResult
    \/ Finally
    \/ Except

Spec == Init /\ [][Next]_vars

\* Every call of lines 40-105 returns or raises, and the interpreter goes on
\* to the next statement: a step that can be taken is eventually taken.
SpecLive == Init /\ [][Next]_vars /\ WF_vars(Next)
\* The same invocation on the recordings whose segment lists range over every
\* list of at most MaxSegs segments: the state space of the adjustment loop.
AdjBodies == {[filename |-> Some("a.wav"), language |-> None,
               decryptionKey |-> None, iv |-> None]}

AdjObjects == {WavBytes(Recording(l)) : l \in SegLists(WellOrdered \cup Untimed, MaxSegs)}

InitAdj == InitWith(AdjBodies, AdjObjects)

SpecAdj == InitAdj /\ [][Next]_vars
\* The same invocation on objects encrypted by the client: every plaintext
\* under every key and nonce, requested with every key and nonce.
KeyBytes ==
    { Rep(0, 16), Rep(255, 16), [k \in 1..16 |-> 15 * k], [k \in 1..32 |-> 7 * k] }

NonceBytes == { Rep(0, 12), [k \in 1..12 |-> 20 * k + 3] }

Plaintexts ==
    {WavBytes(Recording(l)) : l \in SampleSegs} \cup { <<>>, <<[raw |-> 1]>> }

CryptBodies ==
    {[filename |-> Some("a.wav"), language |-> None,
      decryptionKey |-> Some(b64encode(K)), iv |-> Some(b64encode(N))] :
        K \in KeyBytes, N \in NonceBytes}

CryptObjects ==
    {GcmEncrypt(P, K, N) : P \in Plaintexts, K \in KeyBytes, N \in NonceBytes}

InitCrypt == InitWith(CryptBodies, CryptObjects)

SpecCrypt == InitCrypt /\ [][Next]_vars

-----------------------------------------------------------------------------
(* Two invocations at once.  The second one runs the same handler on the   *)
(* same container storage and the same bucket; of its steps, those that    *)
(* touch the storage or the bucket are modelled.                           *)

PeerRequests ==
    { [filename |-> "a.wav", decryption_key |-> None, iv |-> None],
      [filename |-> "a.wav", decryption_key |-> Some(KEY1), iv |-> Some(IV1)] }

\* The first invocation's own variables.
MainUnchanged ==
    UNCHANGED <<body, pc, request, s3_client, temp_path, model, result,
                adjusted_segments, unwinding, retval, exc, response, log, calls>>

\* Lines 21-32: a second request arrives.
PeerArrive ==
    /\ peer.pc = "idle"
    /\ \E r \in PeerRequests :
          peer' = [pc |-> "mktemp", request |-> Some(r), temp_path |-> None]
    /\ MainUnchanged
    /\ UNCHANGED <<fs, store>>

\* Lines 49-50 in the second invocation.
PeerCreateTemp ==
    /\ peer.pc = "mktemp"
    /\ \/ \E p \in TempPaths \ DOMAIN fs :
             /\ fs' = [x \in DOMAIN fs \cup {p} |-> IF x = p THEN <<>> ELSE fs[x]]
             /\ peer' = [peer EXCEPT !.temp_path = Some(p), !.pc = "download"]
       \/ /\ peer' = [peer EXCEPT !.pc = "done"]
          /\ UNCHANGED fs
    /\ MainUnchanged
    /\ UNCHANGED store

\* Lines 54-58 in the second invocation.
PeerDownload ==
    /\ peer.pc = "download"
    /\ \/ /\ Val(peer.request).filename \in DOMAIN store
          /\ fs' = [fs EXCEPT ![Val(peer.temp_path)] = store[Val(peer.request).filename]]
          /\ peer' = [peer EXCEPT !.pc = "decrypt"]
       \/ /\ peer' = [peer EXCEPT !.pc = "finally"]
          /\ UNCHANGED fs
    /\ MainUnchanged
    /\ UNCHANGED store

\* Lines 61-89 in the second invocation.
PeerDecryptFile ==
    /\ peer.pc = "decrypt"
    /\ IF Truthy(Val(peer.request).decryption_key) /\ Truthy(Val(peer.request).iv)
       THEN LET plain == Decrypt(fs[Val(peer.temp_path)],
                                 Val(Val(peer.request).decryption_key),
                                 Val(Val(peer.request).iv))
            IN  IF plain = None
                THEN /\ peer' = [peer EXCEPT !.pc = "finally"]
                     /\ UNCHANGED fs
                ELSE /\ fs' = [fs EXCEPT ![Val(peer.temp_path)] = Val(plain)]
                     /\ peer' = [peer EXCEPT !.pc = "delete"]
       ELSE /\ peer' = [peer EXCEPT !.pc = "delete"]
            /\ UNCHANGED fs
    /\ MainUnchanged
    /\ UNCHANGED store

\* Lines 92-105 in the second invocation: the model reads the scratch file,
\* then the source object is deleted.
PeerDeleteSource ==
    /\ peer.pc = "delete"
    /\ \/ /\ IsWav(fs[Val(peer.temp_path)])
          /\ store' \in {store, Remove(store, Val(peer.request).filename)}
       \/ UNCHANGED store
    /\ peer' = [peer EXCEPT !.pc = "finally"]
    /\ MainUnchanged
    /\ UNCHANGED fs

\* Lines 123-126 in the second invocation.
PeerFinally ==
    /\ peer.pc = "finally"
    /\ fs' = IF Val(peer.temp_path) \in DOMAIN fs
             THEN Remove(fs, Val(peer.temp_path)) ELSE fs
    /\ peer' = [peer EXCEPT !.pc = "done"]
    /\ MainUnchanged
    /\ UNCHANGED store

PairBodies ==
    { [filename |-> Some("a.wav"), language |-> None, decryptionKey |-> None, iv |-> None],
      [filename |-> Some("a.wav"), language |-> None,
       decryptionKey |-> Some(KEY1), iv |-> Some(IV1)] }

InitPair == InitWith(PairBodies, Objects({Spoken}))

NextPair ==
    \/ Next
    \/ PeerArrive
    \/ PeerCreateTemp
    \/ PeerDownload
    \/ PeerDecryptFile
    \/ PeerDeleteSource
    \/ PeerFinally

SpecPair == InitPair /\ [][NextPair]_vars

-----------------------------------------------------------------------------
(* Vocabulary of the properties. *)

MaxTime == 30           \* range of the timestamps the adjustment is tabulated on

CallsOf(op) == {k \in 1..Len(calls) : calls[k].op = op}

\* The delete calls issued for the request's object key.
SourceDeletes ==
    {k \in CallsOf("delete_object") : calls[k].key = Val(request).filename}

Returned == pc = "done"

IsTranscriptResult(r) == DOMAIN r = {"text", "segments", "language"}

IsErrorResult(r) ==
    /\ DOMAIN r = {"error", "text", "segments", "language"}
    /\ r.text = <<>>
    /\ r.segments = <<>>
    /\ r.language = UNKNOWN

DeleteRaised ==
    /\ exc # None
    /\ Val(exc).type = "ClientError"
    /\ Val(exc).msg[1] = "delete failed"

-----------------------------------------------------------------------------
(* C1: whenever the scratch file was created, it is absent from local      *)
(* storage when the response is returned, on success and on every failure. *)
C1_ScratchFileRemoved ==
    (Returned /\ temp_path # None) => Val(temp_path) \notin DOMAIN fs

\* A failure after the fetch (here in decryption) has been answered.
C1_Witness ==
    /\ Returned
    /\ temp_path # None
    /\ exc # None
    /\ CallsOf("decrypt") # {}
    /\ Val(temp_path) \notin DOMAIN fs

(* C2: a delete of the request's object key is issued exactly when         *)
(* model.transcribe returned normally: never before or without that, and   *)
(* exactly once as soon as inference has returned.                         *)
C2_DeleteIffInferenceReturned ==
    /\ CallsOf("delete_object") # {} =>
          /\ result # None
          /\ CallsOf("delete_object") = SourceDeletes
    /\ (result # None /\ pc # "delete") => Cardinality(SourceDeletes) = 1
    /\ (Returned /\ result = None) => CallsOf("delete_object") = {}

\* Inference returned, the delete was issued and the response went out.
C2_Witness ==
    /\ Returned
    /\ result # None
    /\ Cardinality(SourceDeletes) = 1
    /\ "a.wav" \notin DOMAIN store

(* C3: every exception raised after the filename check is caught and       *)
(* answered with the one fixed ErrorResult, whatever failed and whatever   *)
(* the filename, key and iv were.                                          *)
C3_FailureContained ==
    (exc # None /\ pc \notin {"finally", "except"}) =>
        /\ Returned
        /\ response = Some(GenericError)

\* A decryption failure under a supplied key has been answered.
C3_Witness ==
    /\ Returned
    /\ exc # None
    /\ Val(exc).type = "DecryptionError"
    /\ Val(exc).msg = <<KEY2>>
    /\ response = Some(GenericError)

(* C4: a request whose filename is empty or absent is answered with        *)
(* "Missing filename parameter", and no client, scratch file, fetch,       *)
(* decryption, model load, inference or delete happens.                    *)
C4_ValidationShortCircuit ==
    (pc \in {"done", "rejected"} /\ ~TruthyKey(body.filename)) =>
        /\ response = Some(MissingFilename)
        /\ calls = <<>>
        /\ ~s3_client
        /\ temp_path = None

(* C5: whenever a delete of the source object was issued, the response is  *)
(* a TranscriptResult; no ErrorResult follows a delete.                    *)
C5_DeleteOnlyOnSuccess ==
    (Returned /\ CallsOf("delete_object") # {}) => IsTranscriptResult(Val(response))

(* C6: when everything up to inference succeeded and the delete of the     *)
(* source object raises, the response is still the TranscriptResult with   *)
(* the adjusted segments.                                                  *)
C6_DeleteBestEffort ==
    (Returned /\ DeleteRaised) =>
        /\ IsTranscriptResult(Val(response))
        /\ Len(Val(response).segments) = Len(Val(result).segments)

(* C7: every response of transcribe_audio is a TranscriptResult with       *)
(* exactly text, segments and language, or an ErrorResult with error,      *)
(* text = "", segments = [] and language = "unknown".                      *)
C7_TwoShapes ==
    Returned => IsTranscriptResult(Val(response)) \/ IsErrorResult(Val(response))
(* C8: in every TranscriptResult the segments are the model's, in the same  *)
(* number and order, each with start = max(0, start - 0.5) and             *)
(* end = max(0.5, end - 0.5); {1.2, 3.0} becomes {0.7, 2.5} and {0.2, 0.4} *)
(* becomes {0, 0.5}.                                                       *)
ShiftedStart(s) == IF s - 5 > 0 THEN s - 5 ELSE 0

ShiftedEnd(e) == IF e - 5 > 5 THEN e - 5 ELSE 5

C8_TimestampAdjustment ==
    (Returned /\ IsTranscriptResult(Val(response))) =>
        LET out == Val(response).segments
            in == Val(result).segments
        IN  /\ Len(out) = Len(in)
            /\ \A i \in 1..Len(in) :
                  /\ out[i].id = in[i].id
                  /\ out[i].start = ShiftedStart(in[i].start)
                  /\ out[i].end = ShiftedEnd(in[i].end)
                  /\ (in[i].start = 12 /\ in[i].end = 30) =>
                        (out[i].start = 7 /\ out[i].end = 25)
                  /\ (in[i].start = 2 /\ in[i].end = 4) =>
                        (out[i].start = 0 /\ out[i].end = 5)

\* A transcript with both example segments, in the model's order.
C8_Witness ==
    /\ Returned
    /\ IsTranscriptResult(Val(response))
    /\ Len(Val(result).segments) = 2
    /\ Val(result).segments[1].start = 2 /\ Val(result).segments[1].end = 4
    /\ Val(result).segments[2].start = 12 /\ Val(result).segments[2].end = 30
    /\ Val(response).segments[1].start = 0 /\ Val(response).segments[1].end = 5
    /\ Val(response).segments[2].start = 7 /\ Val(response).segments[2].end = 25

(* C9, as claimed: some model segment with 0 <= start <= end and           *)
(* end - start < 0.5 is adjusted to end < start.  Stated where it would    *)
(* show: once a transcript with such a short segment has been returned,    *)
(* there is a short well-ordered segment that the adjustment inverts.      *)
ShortOrdered(s, e) == 0 <= s /\ s <= e /\ e - s < 5

C9_InversionReachable ==
    ( /\ Returned
      /\ IsTranscriptResult(Val(response))
      /\ \E i \in 1..Len(Val(result).segments) :
            ShortOrdered(Val(result).segments[i].start, Val(result).segments[i].end) )
    => \E s \in 0..MaxTime, e \in 0..MaxTime :
          /\ ShortOrdered(s, e)
          /\ AdjustEnd(e) < AdjustStart(s)

(* C9, amended: every model segment with 0 <= start <= end, however short, *)
(* is adjusted to start <= end; the floor on end never inverts the order.  *)
OrderPreservedOnRange ==
    \A s \in 0..MaxTime, e \in 0..MaxTime :
        s <= e => AdjustStart(s) <= AdjustEnd(e)

C9_OrderPreserved ==
    /\ OrderPreservedOnRange
    /\ \A i \in 1..Len(adjusted_segments) :
          Val(result).segments[i].start <= Val(result).segments[i].end =>
              adjusted_segments[i].start <= adjusted_segments[i].end

\* A well-ordered segment shorter than the offset has been adjusted and returned.
C9_Witness ==
    /\ Returned
    /\ IsTranscriptResult(Val(response))
    /\ \E i \in 1..Len(Val(result).segments) :
          /\ Val(result).segments[i].start = 10
          /\ Val(result).segments[i].end = 12
          /\ Val(response).segments[i].start = 5
          /\ Val(response).segments[i].end = 7

(* C10: the model is invoked with no forced language when the hint is      *)
(* exactly "auto" or was omitted, and with the lower-cased hint otherwise, *)
(* "AUTO" and "Auto" included; "EN" is forced as "en".                     *)
ExpectedLanguage(hint) ==
    CASE hint = None -> None
      [] hint = Some(<<"a", "u", "t", "o">>) -> None
      [] hint = Some(<<"A", "U", "T", "O">>) -> Some(<<"a", "u", "t", "o">>)
      [] hint = Some(<<"A", "u", "t", "o">>) -> Some(<<"a", "u", "t", "o">>)
      [] hint = Some(<<"E", "N">>) -> Some(<<"e", "n">>)
      [] hint = Some(<<"e", "n">>) -> Some(<<"e", "n">>)

C10_LanguageRouting ==
    /\ \A k \in CallsOf("transcribe") : calls[k].language = ExpectedLanguage(body.language)
    /\ result # None => CallsOf("transcribe") # {}

\* Inference has run on a request whose hint is "AUTO".
C10_Witness ==
    /\ body.language = Some(<<"A", "U", "T", "O">>)
    /\ result # None
    /\ \E k \in CallsOf("transcribe") : calls[k].language = Some(<<"a", "u", "t", "o">>)
(* C11: on the happy path the steps run in the order fetch, decryption     *)
(* (only when key and iv are given), inference, adjustment, delete of the  *)
(* source object, response; the delete is never issued before the          *)
(* adjustment has completed.                                               *)
BothGiven == Truthy(body.decryptionKey) /\ Truthy(body.iv)

Before(a, b) == \A i \in CallsOf(a), j \in CallsOf(b) : i < j

C11_HappyPathOrder ==
    /\ (pc = "adjust" /\ Len(adjusted_segments) < Len(Val(result).segments)) =>
          CallsOf("delete_object") = {}
    /\ (Returned /\ IsTranscriptResult(Val(response))) =>
          /\ CallsOf("download_file") # {}
          /\ CallsOf("transcribe") # {}
          /\ CallsOf("delete_object") # {}
          /\ (CallsOf("decrypt") # {}) = BothGiven
          /\ Before("download_file", "decrypt")
          /\ Before("download_file", "transcribe")
          /\ Before("decrypt", "transcribe")
          /\ Before("transcribe", "delete_object")
(* C12: decryption is attempted exactly when both decryptionKey and iv    *)
(* are supplied and non-empty; otherwise the scratch file stays exactly as *)
(* fetched and those bytes are what inference reads.                       *)
C12_DecryptionGating ==
    /\ CallsOf("decrypt") # {} => BothGiven
    /\ (BothGiven /\ (CallsOf("load_model") # {} \/ pc = "load")) =>
          Cardinality(CallsOf("decrypt")) = 1
    /\ (~BothGiven /\ pc \in {"decrypt", "load", "transcribe", "delete"}) =>
          /\ fs[Val(temp_path)] = store[Val(request).filename]
          /\ \A k \in CallsOf("transcribe") :
                calls[k].audio = store[Val(request).filename]

\* A key without iv: inference has read the bytes as fetched.
C12_Witness ==
    /\ body.decryptionKey = Some(KEY1)
    /\ body.iv = None
    /\ pc = "delete"
    /\ CallsOf("decrypt") = {}
    /\ \E k \in CallsOf("transcribe") : calls[k].audio = store["a.wav"]
(* C13: when key and iv are supplied and authentication fails (tampered   *)
(* ciphertext or tag, wrong key) or a length is invalid (key not 16, 24 or *)
(* 32 bytes, buffer shorter than 16 bytes), the response is the            *)
(* ErrorResult, the scratch file is never overwritten, the model is never  *)
(* loaded or run and the source object is not deleted.                     *)
\* bytes is ciphertext || tag of some plaintext under key K and nonce N.
SealedUnder(bytes, K, N) ==
    /\ Len(bytes) >= 16
    /\ \A k \in 1..(Len(bytes) - 16) : DOMAIN bytes[k] = {"ct", "key", "nonce", "pos"}
    /\ bytes = GcmEncrypt([k \in 1..(Len(bytes) - 16) |-> bytes[k].ct], K, N)

Unauthentic(bytes) ==
    LET K == b64decode(Val(body.decryptionKey))
        N == b64decode(Val(body.iv))
    IN  \/ K = None
        \/ N = None
        \/ Len(Val(K)) \notin {16, 24, 32}
        \/ Len(bytes) < 16
        \/ ~SealedUnder(bytes, Val(K), Val(N))

C13_DecryptionFailureNotSilent ==
    ( /\ CallsOf("decrypt") # {}
      /\ Val(request).filename \in DOMAIN store
      /\ Unauthentic(store[Val(request).filename]) )
    => /\ exc # None
       /\ pc \in {"finally", "except", "done"}
       /\ CallsOf("load_model") = {}
       /\ CallsOf("transcribe") = {}
       /\ CallsOf("delete_object") = {}
       /\ ~model
       /\ result = None
       /\ Val(temp_path) \in DOMAIN fs =>
             fs[Val(temp_path)] = store[Val(request).filename]
       /\ Returned => response = Some(GenericError)

\* An object whose tag was tampered with has been answered.
C13_Witness ==
    /\ Returned
    /\ body.decryptionKey = Some(KEY1)
    /\ body.iv = Some(IV1)
    /\ CallsOf("decrypt") # {}
    /\ "a.wav" \in DOMAIN store
    /\ DOMAIN store["a.wav"][Len(store["a.wav"])] = {"flipped"}
    /\ response = Some(GenericError)
(* C14: when the fetched buffer is ciphertext || tag of plaintext P under  *)
(* key K and nonce N, and the request carries base64(K) and base64(N), the *)
(* scratch file handed to inference is exactly P.                          *)
C14_DecryptRoundTrip ==
    \A P \in Plaintexts, K \in KeyBytes, N \in NonceBytes :
        ( /\ body.decryptionKey = Some(b64encode(K))
          /\ body.iv = Some(b64encode(N))
          /\ "a.wav" \in DOMAIN store
          /\ store["a.wav"] = GcmEncrypt(P, K, N) )
        => /\ pc \in {"load", "transcribe", "delete"} => fs[Val(temp_path)] = P
           /\ \A k \in CallsOf("transcribe") : calls[k].audio = P
           /\ exc # None => Val(exc).type # "DecryptionError"

\* Inference has read the recording sealed under the 32-byte key.
C14_Witness ==
    /\ pc = "delete"
    /\ body.decryptionKey = Some(b64encode([k \in 1..32 |-> 7 * k]))
    /\ body.iv = Some(b64encode([k \in 1..12 |-> 20 * k + 3]))
    /\ store["a.wav"] = GcmEncrypt(WavBytes(Recording(Spoken)),
                                   [k \in 1..32 |-> 7 * k], [k \in 1..12 |-> 20 * k + 3])
    /\ \E k \in CallsOf("transcribe") : calls[k].audio = WavBytes(Recording(Spoken))
(* C15: fetch, decrypt, model load, inference and source delete are each   *)
(* invoked at most once, and once any step has failed no later pipeline    *)
(* step runs: only the scratch cleanup, the log and the ErrorResult follow.*)
PipelineOps ==
    {"boto3.client", "download_file", "decrypt", "load_model", "transcribe",
     "delete_object"}

C15_NoRetriesFirstFailureTerminal ==
    /\ [](\A op \in PipelineOps : Cardinality(CallsOf(op)) <= 1)
    /\ [](exc # None => pc \in {"finally", "except", "done"})
    /\ [][exc # None =>
            /\ calls' = calls
            /\ store' = store
            /\ model' = model
            /\ result' = result
            /\ adjusted_segments' = adjusted_segments
            /\ exc' = exc
            /\ response' \in {response, Some(GenericError)}]_vars

\* The model failed to load; inference and delete never ran.
C15_Witness ==
    /\ Returned
    /\ exc = Raised("RuntimeError", <<"model load failed">>)
    /\ Cardinality(CallsOf("download_file")) = 1
    /\ CallsOf("transcribe") = {}
    /\ CallsOf("delete_object") = {}
    /\ Len(log) = 2
(* C16: a response carries transcript text or segments only when fetch,   *)
(* optional decryption, model load, inference, source delete and the       *)
(* adjustment of every segment all completed; a failure after inference    *)
(* leaves none of the model's text or segments in the response.            *)
CarriesTranscript(r) ==
    \/ "text" \in DOMAIN r /\ r.text # <<>>
    \/ "segments" \in DOMAIN r /\ r.segments # <<>>

C16_NoPartialResults ==
    Returned =>
        /\ CarriesTranscript(Val(response)) =>
              /\ exc = None
              /\ \A op \in {"download_file", "load_model", "transcribe", "delete_object"} :
                     CallsOf(op) # {}
              /\ BothGiven => CallsOf("decrypt") # {}
              /\ result # None
              /\ Val(request).filename \notin DOMAIN store
              /\ Len(adjusted_segments) = Len(Val(result).segments)
              /\ Val(response).segments = adjusted_segments
              /\ Val(response).text = Val(result).text
        /\ (exc # None /\ result # None) =>
              /\ ~CarriesTranscript(Val(response))
              /\ Val(response) = GenericError

\* The loop adjusted one segment and failed on the next one.
C16_Witness ==
    /\ Returned
    /\ exc = Raised("KeyError", <<"start">>)
    /\ Len(adjusted_segments) = 1
    /\ Len(Val(result).segments) = 2
    /\ Val(result).text # <<>>
    /\ Val(response) = GenericError
(* C17: every invocation of transcribe_audio eventually returns, with      *)
(* exactly one response; it never stops in an intermediate state, and no   *)
(* exception leaves the handler.                                           *)
Terminal == pc \in {"done", "rejected"}

C17_Termination ==
    /\ (pc = "start") ~> Returned
    /\ [](~ENABLED Next => (Terminal /\ response # None))
    /\ [](Returned => (IsTranscriptResult(Val(response)) \/ "error" \in DOMAIN Val(response)))
    /\ [](response # None => Terminal)
    /\ [][response # None => response' = response]_vars

\* No scratch file could be created; the invocation still answered.
C17_Witness ==
    /\ Returned
    /\ exc = Raised("OSError", <<"No space left on device">>)
    /\ temp_path = None
    /\ response = Some(GenericError)
    /\ ~ENABLED Next
(* C19: a returned segment differs from the model's segment in start and   *)
(* end only; the model's own result is left as the model produced it; the  *)
(* returned text and language are the model's.                             *)
SameButTimes(out, in) ==
    /\ DOMAIN out = DOMAIN in
    /\ \A f \in DOMAIN in \ {"start", "end"} : out[f] = in[f]

ModelOutput ==
    \E k \in CallsOf("transcribe") :
        /\ IsWav(calls[k].audio)
        /\ Val(result) = WhisperResult(calls[k].audio[1].wav, calls[k].language)

C19_AdjustmentFrame ==
    /\ result # None => ModelOutput
    /\ pc \in {"adjust", "finally", "except", "done"} /\ result # None =>
          /\ Len(adjusted_segments) <= Len(Val(result).segments)
          /\ \A i \in 1..Len(adjusted_segments) :
                 SameButTimes(adjusted_segments[i], Val(result).segments[i])
    /\ (Returned /\ IsTranscriptResult(Val(response))) =>
          /\ Len(Val(response).segments) = Len(Val(result).segments)
          /\ \A i \in 1..Len(Val(response).segments) :
                 SameButTimes(Val(response).segments[i], Val(result).segments[i])
          /\ Val(response).text = Val(result).text
          /\ Val(response).language = Val(result).language

\* Two segments came back shifted; the model's result still has its times.
C19_Witness ==
    /\ Returned
    /\ IsTranscriptResult(Val(response))
    /\ Val(result).segments = WhisperResult(Recording(Spoken), None).segments
    /\ Val(response).segments[1] = [id |-> 0, start |-> 7, end |-> 25, text |-> "hello"]
    /\ Val(result).segments[1] = [id |-> 0, start |-> 12, end |-> 30, text |-> "hello"]
    /\ Val(response).text = <<"hello", "world">>
(* C18: two invocations at once never hold the same scratch file; each     *)
(* one's file is there while it is in use, and no step of one invocation   *)
(* changes or removes the file of the other, also when both ask for the    *)
(* same object key.                                                        *)
MainLive ==
    /\ temp_path # None
    /\ pc \in {"download", "decrypt", "load", "transcribe", "delete", "adjust", "finally"}

PeerLive ==
    /\ peer.temp_path # None
    /\ peer.pc \in {"download", "decrypt", "delete", "finally"}

Untouched(p) == p \in DOMAIN fs' /\ fs'[p] = fs[p]

C18_ScratchIsolation ==
    /\ [](MainLive /\ PeerLive => Val(temp_path) # Val(peer.temp_path))
    /\ [](MainLive => Val(temp_path) \in DOMAIN fs)
    /\ [](PeerLive => Val(peer.temp_path) \in DOMAIN fs)
    /\ [][(MainLive /\ peer' # peer) => Untouched(Val(temp_path))]_vars
    /\ [][(PeerLive /\ peer' = peer) => Untouched(Val(peer.temp_path))]_vars

\* Both asked for "a.wav"; the second invocation has cleaned up and the
\* first still has the audio in its own file.
C18_Witness ==
    /\ pc = "transcribe"
    /\ peer.pc = "done"
    /\ peer.temp_path # None
    /\ peer.temp_path # temp_path
    /\ Val(peer.request).filename = Val(request).filename
    /\ Val(peer.temp_path) \notin DOMAIN fs
    /\ fs[Val(temp_path)] = WavBytes(Recording(Spoken))

====
